---- MODULE Spec2Model ----
(***************************************************************************)
(* A model of notry (src/tn_improved.py): the NoteStore repository and the *)
(* NotryApp session controller with its Browse and Import sub-sessions.    *)
(*                                                                         *)
(* Text is a tuple of one-character strings, so that strip, lower, LIKE,   *)
(* slugs and the dedup hash are computed character by character.           *)
(* Timestamps are whole seconds counted from the start of the run.         *)
(* The SHA-256 digest is taken as injective: a digest is modelled by the   *)
(* very text that is fed to it.                                            *)
(***************************************************************************)
EXTENDS Integers, Sequences, FiniteSets, TLC

VARIABLES
    notes,            \* table notes: id -> row
    seq,              \* sqlite_sequence of the AUTOINCREMENT key: last id given
    now,              \* the clock, in seconds
    mode,             \* NotryApp.mode
    editing_note_id,  \* NotryApp.editing_note_id (None when unset)
    original_body,    \* NotryApp.original_body
    editor_text,      \* the TextArea's text (ed.text)
    marked,           \* NotryApp.marked, shared with BrowseScreen.marked_set
    matches,          \* NotryApp.matches
    input_value,      \* the search Input's value
    index,            \* ResultsList.index (NoIndex when the list is empty)
    screens,          \* the screen stack, the main screen first
    cards,            \* BrowseScreen.cards, as note ids
    current_index,    \* BrowseScreen.current_index
    browse_worker,    \* whether the worker of _launch_browse_mode is waiting
    last,             \* the last intent or repository call, with what it returned
    prev              \* the import_text_file before it (repository runs only)

vars == <<notes, seq, now, mode, editing_note_id, original_body, editor_text,
          marked, matches, input_value, index, screens, cards,
          current_index, browse_worker, last, prev>>

storeVars == <<notes, seq>>
sessionVars == <<mode, editing_note_id, original_body, editor_text, marked,
                 matches, input_value, index, screens, cards,
                 current_index, browse_worker>>

----------------------------------------------------------------------------
(* Bounds of the model *)

MaxNotes == 2
MaxTime == 1

(* Program constants *)

max_rows == 500
SlugMax == 50

None == 0
NoIndex == -1
NULL == <<"NULL">>

----------------------------------------------------------------------------
(* Text *)

Upper == {"A", "B", "C", "D", "M", "T", "X", "Q"}
Alnum == {"a", "b", "c", "d", "e", "h", "l", "m", "n", "o", "p", "q", "t", "x",
          "y", "z", "0", "1", "2", "3", "4", "5", "6", "7", "8", "9"} \cup Upper
          \cup {"E'", "e'"}
Space == {" ", "\n"}

\* str.lower() of Python: every cased letter, the accented ones included.
PyLowerChar(c) ==
    CASE c = "A" -> "a" [] c = "B" -> "b" [] c = "C" -> "c" [] c = "D" -> "d"
      [] c = "M" -> "m" [] c = "T" -> "t" [] c = "X" -> "x" [] c = "Q" -> "q"
      [] c = "E'" -> "e'"
      [] OTHER -> c

\* lower() and the case folding of LIKE in SQLite: the ASCII letters only.
SqlLowerChar(c) == IF c = "E'" THEN c ELSE PyLowerChar(c)

PyLower(s) == [i \in 1..Len(s) |-> PyLowerChar(s[i])]
SqlLower(s) == [i \in 1..Len(s) |-> SqlLowerChar(s[i])]

RECURSIVE LStrip(_)
LStrip(s) == IF s # <<>> /\ Head(s) \in Space THEN LStrip(Tail(s)) ELSE s

RECURSIVE RStrip(_)
RStrip(s) ==
    IF s # <<>> /\ s[Len(s)] \in Space THEN RStrip(SubSeq(s, 1, Len(s) - 1)) ELSE s

\* str.strip()
Strip(s) == RStrip(LStrip(s))

StartsWith(s, c) == s # <<>> /\ Head(s) = c

\* s[:n]
Truncate(s, n) == SubSeq(s, 1, IF Len(s) < n THEN Len(s) ELSE n)

\* the first token of str.split()
RECURSIVE TakeWord(_)
TakeWord(s) ==
    IF s = <<>> \/ Head(s) \in Space THEN <<>> ELSE <<Head(s)>> \o TakeWord(Tail(s))

FirstToken(s) == TakeWord(LStrip(s))

\* The LIKE operator of SQLite: % matches any run, _ any one character,
\* every other character itself, ASCII letters without regard to case.
RECURSIVE Like(_, _)
Like(s, p) ==
    IF p = <<>> THEN s = <<>>
    ELSE IF Head(p) = "%" THEN Like(s, Tail(p)) \/ (s # <<>> /\ Like(Tail(s), p))
    ELSE /\ s # <<>>
         /\ Head(p) = "_" \/ SqlLowerChar(Head(p)) = SqlLowerChar(Head(s))
         /\ Like(Tail(s), Tail(p))

\* the decimal digits of a natural number
RECURSIVE Digits(_)
Digits(n) ==
    LET d == <<"0", "1", "2", "3", "4", "5", "6", "7", "8", "9">>[(n % 10) + 1]
    IN  IF n < 10 THEN <<d>> ELSE Digits(n \div 10) \o <<d>>

----------------------------------------------------------------------------
(* NoteStore *)

count(rows) == Cardinality(DOMAIN rows)

compute_hash(title, body) == title \o <<"|", "|">> \o body

\* a variant of note_exists_by_hash that finds nothing
note_exists_by_hash_blind(rows, import_hash) ==
    Cardinality({i \in DOMAIN rows : rows[i].import_hash = import_hash}) > count(rows)

note_exists_by_hash(rows, import_hash) ==
    Cardinality({i \in DOMAIN rows : rows[i].import_hash = import_hash}) > 0

Row(title, body, created, updated, import_hash) ==
    [title |-> title, body |-> body, created_at |-> created,
     updated_at |-> updated, import_hash |-> import_hash]

\* a variant of upsert_insert that takes the last key given once more
upsert_insert_reusing(rows, sq, t, title, body, import_hash) ==
    LET id == IF sq = 0 THEN 1 ELSE sq
    IN  [rows |-> [i \in DOMAIN rows \cup {id} |->
                     IF i = id THEN Row(title, body, t, t, import_hash)
                     ELSE rows[i]],
         seq |-> id,
         id |-> id]

\* upsert without an id: INSERT, the key taken from the AUTOINCREMENT sequence.
\* The result is the store after the call and the id returned.
upsert_insert(rows, sq, t, title, body, import_hash) ==
    LET id == sq + 1
    IN  [rows |-> [i \in DOMAIN rows \cup {id} |->
                     IF i = id THEN Row(title, body, t, t, import_hash)
                     ELSE rows[i]],
         seq |-> id,
         id |-> id]

\* a variant of upsert_update that stamps created_at as well
upsert_update_restamped(rows, sq, t, title, body, note_id, import_hash) ==
    [rows |-> [i \in DOMAIN rows |->
                 IF i = note_id THEN Row(title, body, t, t, import_hash) ELSE rows[i]],
     seq |-> sq,
     id |-> note_id]

\* a variant of upsert_update that leaves updated_at as it was
upsert_update_unstamped(rows, sq, t, title, body, note_id, import_hash) ==
    [rows |-> [i \in DOMAIN rows |->
                 IF i = note_id
                 THEN Row(title, body, rows[i].created_at, rows[i].updated_at,
                          import_hash)
                 ELSE rows[i]],
     seq |-> sq,
     id |-> note_id]

\* upsert with an id: UPDATE ... WHERE id=?, which touches no row when no row
\* has the id.
upsert_update(rows, sq, t, title, body, note_id, import_hash) ==
    [rows |-> [i \in DOMAIN rows |->
                 IF i = note_id
                 THEN Row(title, body, rows[i].created_at, t, import_hash)
                 ELSE rows[i]],
     seq |-> sq,
     id |-> note_id]

\* a variant of upsert that inserts a row when no row has the id given
upsert_creating_unknown(rows, sq, t, title, body, note_id, import_hash) ==
    IF note_id = None \/ note_id \notin DOMAIN rows
    THEN upsert_insert(rows, sq, t, title, body, import_hash)
    ELSE upsert_update(rows, sq, t, title, body, note_id, import_hash)

upsert(rows, sq, t, title, body, note_id, import_hash) ==
    IF note_id = None
    THEN upsert_insert(rows, sq, t, title, body, import_hash)
    ELSE upsert_update(rows, sq, t, title, body, note_id, import_hash)

\* get: whether the id resolves; the row is rows[note_id] when it does.
get(rows, note_id) == note_id \in DOMAIN rows

\* a variant of OrderedBefore that orders by rowid alone
OrderedBefore_by_id(rows, i, j) == i <= j

\* ORDER BY updated_at DESC. Rows with equal updated_at come out in rowid
\* order: the index idx_updated and the sorter both keep it.
OrderedBefore(rows, i, j) ==
    \/ rows[i].updated_at > rows[j].updated_at
    \/ rows[i].updated_at = rows[j].updated_at /\ i <= j

RECURSIVE OrderByUpdatedDesc(_, _)
OrderByUpdatedDesc(rows, S) ==
    IF S = {} THEN <<>>
    ELSE LET m == CHOOSE i \in S : \A j \in S : OrderedBefore(rows, i, j)
         IN  <<m>> \o OrderByUpdatedDesc(rows, S \ {m})

\* WHERE lower(title) LIKE ? OR lower(body) LIKE ?, with ? = %lower(text)%
SearchWhere(rows, text) ==
    LET q == <<"%">> \o PyLower(text) \o <<"%">>
    IN  {i \in DOMAIN rows :
            Like(SqlLower(rows[i].title), q) \/ Like(SqlLower(rows[i].body), q)}

\* search: the ids, in order (the snippet of id i is title, line break, body)
search(rows, text, limit) ==
    LET S == IF Strip(text) = <<>> THEN DOMAIN rows ELSE SearchWhere(rows, text)
    IN  Truncate(OrderByUpdatedDesc(rows, S), limit)

\* all(): every row, newest first
all(rows) == OrderByUpdatedDesc(rows, DOMAIN rows)

----------------------------------------------------------------------------
(* The file system seen by import: the entries of one directory *)

Entry(stem, suffix, content, is_file, readable) ==
    [stem |-> stem, suffix |-> suffix, content |-> content,
     is_file |-> is_file, readable |-> readable]

F_a_md == Entry(<<"a">>, <<".", "m", "d">>, <<"x">>, TRUE, TRUE)
\* the same stem and the same content as a.md, under an extension that
\* import_directory takes and the ImportDialog does not list
F_a_markdown ==
    Entry(<<"a">>, <<".", "m", "a", "r", "k", "d", "o", "w", "n">>, <<"x">>, TRUE, TRUE)
\* a file whose read raises (permission denied)
F_C_md == Entry(<<"C">>, <<".", "m", "d">>, <<"x">>, TRUE, FALSE)
F_D_MD == Entry(<<"D">>, <<".", "M", "D">>, <<"x">>, TRUE, TRUE)
F_e_py == Entry(<<"e">>, <<".", "p", "y">>, <<"x">>, TRUE, TRUE)
\* a directory named like a note file
F_f_md == Entry(<<"f">>, <<".", "m", "d">>, <<>>, FALSE, TRUE)

\* two files that differ in stem and in content and give the same text
\* stem||content; they lie outside the directory of DirEntries
F_abar_md == Entry(<<"a", "|">>, <<".", "m", "d">>, <<"x">>, TRUE, TRUE)
F_a_txt == Entry(<<"a">>, <<".", "t", "x", "t">>, <<"|", "x">>, TRUE, TRUE)

DirEntries == {F_a_md, F_a_markdown, F_C_md, F_D_MD, F_e_py, F_f_md}

Name(f) == f.stem \o f.suffix

\* the code points of the characters of file names, in increasing order
CodeOrder == <<".", "A", "B", "C", "D", "M", "T", "X",
               "a", "b", "c", "d", "e", "f", "k", "m", "n", "o", "p", "r", "t",
               "w", "x", "y">>

Code(c) == CHOOSE i \in 1..Len(CodeOrder) : CodeOrder[i] = c

\* str < str
RECURSIVE LexLess(_, _)
LexLess(a, b) ==
    IF b = <<>> THEN FALSE
    ELSE IF a = <<>> THEN TRUE
    ELSE IF Head(a) = Head(b) THEN LexLess(Tail(a), Tail(b))
    ELSE Code(Head(a)) < Code(Head(b))

\* sorted(S) by the text key[f] of each entry f
RECURSIVE SortedByKey(_, _)
SortedByKey(S, key) ==
    IF S = {} THEN <<>>
    ELSE LET m == CHOOSE f \in S : \A g \in S : ~LexLess(key[g], key[f])
         IN  <<m>> \o SortedByKey(S \ {m}, key)

LowerName(f) == PyLower(Name(f))

import_extensions == {<<".", "m", "d">>, <<".", "m", "a", "r", "k", "d", "o", "w", "n">>,
                      <<".", "t", "x", "t">>}
dialog_extensions == {<<".", "m", "d">>, <<".", "t", "x", "t">>}

Importable(f, extensions) == f.is_file /\ PyLower(f.suffix) \in extensions

Untitled == <<"(", "u", "n", "t", "i", "t", "l", "e", "d", ")">>

\* a variant of import_text_file that inserts without looking for the hash
import_text_file_unchecked(rows, sq, t, f) ==
    LET title == IF f.stem # <<>> THEN f.stem ELSE Untitled
        u == upsert(rows, sq, t, title, f.content, None,
                    compute_hash(title, f.content))
    IN  [rows |-> u.rows, seq |-> u.seq, ret |-> <<1, 0, u.id>>]

\* import_text_file on a file that can be read: the store after the call and
\* the triple returned, <<imported, skipped, note_id>>.
import_text_file(rows, sq, t, f) ==
    LET content == f.content
        title == IF f.stem # <<>> THEN f.stem ELSE Untitled
        import_hash == compute_hash(title, content)
    IN  IF note_exists_by_hash(rows, import_hash)
        THEN [rows |-> rows, seq |-> sq, ret |-> <<0, 1, None>>]
        ELSE LET u == upsert(rows, sq, t, title, content, None, import_hash)
             IN  [rows |-> u.rows, seq |-> u.seq, ret |-> <<1, 0, u.id>>]

\* The loop shared by import_directory and _do_import, from an accumulator
\* acc = [rows, seq, imported, skipped, ids, raised]. path.read_text raising
\* leaves the loop: nothing in either loop catches it.
RECURSIVE ImportLoop(_, _, _)
ImportLoop(acc, t, files) ==
    IF files = <<>> THEN acc
    ELSE LET f == Head(files)
         IN  IF ~f.readable THEN [acc EXCEPT !.raised = TRUE]
             ELSE LET r == import_text_file(acc.rows, acc.seq, t, f)
                  IN  ImportLoop(
                        [rows |-> r.rows, seq |-> r.seq,
                         imported |-> acc.imported + r.ret[1],
                         skipped |-> acc.skipped + r.ret[2],
                         ids |-> IF r.ret[3] # None
                                 THEN Append(acc.ids, r.ret[3]) ELSE acc.ids,
                         raised |-> FALSE],
                        t, Tail(files))

ImportStart(rows, sq) ==
    [rows |-> rows, seq |-> sq, imported |-> 0, skipped |-> 0, ids |-> <<>>,
     raised |-> FALSE]

\* a variant of import_directory that takes the files in the order of their
\* lower-cased names
import_directory_by_lower_name(rows, sq, t, dir, extensions) ==
    LET eligible == SelectSeq(SortedByKey(dir, [f \in dir |-> LowerName(f)]),
                              LAMBDA f : Importable(f, extensions))
    IN  ImportLoop(ImportStart(rows, sq), t, eligible)

\* import_directory over the entries dir of a directory
import_directory(rows, sq, t, dir, extensions) ==
    LET eligible == SelectSeq(SortedByKey(dir, [f \in dir |-> Name(f)]),
                              LAMBDA f : Importable(f, extensions))
    IN  ImportLoop(ImportStart(rows, sq), t, eligible)

----------------------------------------------------------------------------
(* Export *)

SlugChar(c) == c \in Alnum \/ c \in {" ", "-", "_"}

RECURSIVE StripBlanks(_)
StripBlanks(s) ==
    IF s # <<>> /\ Head(s) = " " THEN StripBlanks(Tail(s))
    ELSE IF s # <<>> /\ s[Len(s)] = " " THEN StripBlanks(SubSeq(s, 1, Len(s) - 1))
    ELSE s

NoteDash(nid) == <<"n", "o", "t", "e", "-">> \o Digits(nid)

Slug(nid, title) ==
    LET kept == Truncate(StripBlanks(SelectSeq(title, SlugChar)), SlugMax)
        safe == IF kept # <<>> THEN kept ELSE NoteDash(nid)
    IN  [i \in 1..Len(safe) |-> IF safe[i] = " " THEN "-" ELSE safe[i]]

\* a variant of ExportName that names the file by the title alone
ExportName_by_title(nid, title) ==
    <<"n", "o", "t", "e", "-">> \o Slug(nid, title) \o <<".", "m", "d">>

ExportName(nid, title) ==
    NoteDash(nid) \o <<"-">> \o Slug(nid, title) \o <<".", "m", "d">>

ExportContent(r) ==
    <<"#", " ">> \o r.title
    \o <<"\n", "\n", "_Created: ", ToString(r.created_at), " · Updated: ",
         ToString(r.updated_at), "_", "\n", "\n">>
    \o r.body

\* An argument note_ids of export_separate_files: absent (None) or a list.
NoIds == [given |-> FALSE, ids |-> <<>>]
Ids(list) == [given |-> TRUE, ids |-> list]

\* the notes export_separate_files writes, in order: `if note_ids` is false
\* for None and for the empty list alike
ExportRows(rows, note_ids) ==
    IF note_ids.given /\ note_ids.ids # <<>>
    THEN SelectSeq(note_ids.ids, LAMBDA nid : get(rows, nid))
    ELSE all(rows)

\* export_separate_files: the number returned and the files of the target
\* directory afterwards (a later write to the same name replaces the file).
export_separate_files(rows, note_ids) ==
    LET out == ExportRows(rows, note_ids)
    IN  [n |-> Len(out),
         files |-> {[name |-> ExportName(out[k], rows[out[k]].title),
                     content |-> ExportContent(rows[out[k]])] : k \in 1..Len(out)}]

----------------------------------------------------------------------------
(* What the user can type and select *)

\* the texts typed into the search Input
Queries == {<<>>, <<"a">>, <<":", "q">>}

\* the texts typed into the editor
EditorTexts == {<<"x">>}

\* ImportDialog.refresh_file_list: the files listed, in the order shown
DialogFiles ==
    LET S == {f \in DirEntries : Importable(f, dialog_extensions)}
    IN  SortedByKey(S, [f \in S |-> LowerName(f)])

\* action_import_selected: the selected items, in the order of the list
Selection(picked) == SelectSeq(DialogFiles, LAMBDA f : f \in picked)

RECURSIVE SetToSeq(_)
SetToSeq(S) ==
    IF S = {} THEN <<>>
    ELSE LET m == CHOOSE i \in S : \A j \in S : i <= j
         IN  <<m>> \o SetToSeq(S \ {m})

Min(a, b) == IF a < b THEN a ELSE b
Max(a, b) == IF a > b THEN a ELSE b

----------------------------------------------------------------------------
(* NotryApp and its screens. A method is an operator from the state before *)
(* the call (self: the app, its store and its screens) to the state after. *)

Self ==
    [notes |-> notes, seq |-> seq, mode |-> mode,
     editing_note_id |-> editing_note_id, original_body |-> original_body,
     editor_text |-> editor_text, marked |-> marked, matches |-> matches,
     input_value |-> input_value, index |-> index,
     screens |-> screens, cards |-> cards, current_index |-> current_index,
     browse_worker |-> browse_worker]

Top(self) == self.screens[Len(self.screens)]

\* ResultsList.set_items, as far as the cursor goes
set_items(self) ==
    [self EXCEPT !.index = IF Truncate(self.matches, max_rows) # <<>>
                           THEN 0 ELSE NoIndex]

\* ResultsList.current_note_id
current_note_id(self) ==
    IF self.index = NoIndex \/ Truncate(self.matches, max_rows) = <<>>
    THEN None
    ELSE self.matches[self.index + 1]

refresh_results(self) == set_items(self)

\* a variant of refresh_search that drops the marks of notes out of the results
refresh_search_pruning(self, text) ==
    LET found == search(self.notes, text, max_rows)
    IN  refresh_results(
          [self EXCEPT !.matches = found,
                       !.marked = self.marked \cap {found[k] : k \in 1..Len(found)}])

refresh_search(self, text) ==
    refresh_results([self EXCEPT !.matches = search(self.notes, text, max_rows)])

\* a variant of enter_edit that opens the editor on an id without a note
enter_edit_unchecked(self, nid) ==
    [self EXCEPT !.mode = "EDIT",
                 !.editing_note_id = nid,
                 !.original_body = IF get(self.notes, nid)
                                   THEN self.notes[nid].body ELSE <<>>,
                 !.editor_text = IF get(self.notes, nid)
                                 THEN self.notes[nid].body ELSE <<>>]

enter_edit(self, nid) ==
    IF ~get(self.notes, nid) THEN self
    ELSE [self EXCEPT !.mode = "EDIT",
                      !.editing_note_id = nid,
                      !.original_body = self.notes[nid].body,
                      !.editor_text = self.notes[nid].body]

\* a variant of action_mode_back without the comparison with original_body
action_mode_back_unguarded(self) ==
    IF self.mode = "EDIT"
    THEN refresh_search([self EXCEPT !.mode = "SEARCH",
                                     !.editing_note_id = None,
                                     !.original_body = <<>>],
                        self.input_value)
    ELSE [self EXCEPT !.mode = "SEARCH"]

action_mode_back(self) ==
    IF self.mode = "EDIT"
    THEN IF self.editor_text # self.original_body
         THEN self
         ELSE refresh_search([self EXCEPT !.mode = "SEARCH",
                                          !.editing_note_id = None,
                                          !.original_body = <<>>],
                             self.input_value)
    ELSE [self EXCEPT !.mode = "SEARCH"]

\* a variant of action_open_or_edit that makes a note without searching first
action_open_or_edit_always_creating(self, t, is_in_results) ==
    LET nid == current_note_id(self)
        q == Strip(self.input_value)
    IN  IF self.mode # "SEARCH" THEN self
        ELSE IF is_in_results /\ nid # None THEN enter_edit(self, nid)
        ELSE IF q # <<>>
        THEN LET u == upsert(self.notes, self.seq, t, q, <<>>, None, NULL)
             IN  enter_edit(
                   refresh_search([self EXCEPT !.notes = u.rows, !.seq = u.seq], q),
                   u.id)
        ELSE IF nid # None THEN enter_edit(self, nid)
        ELSE self

action_open_or_edit(self, t, is_in_results) ==
    LET nid == current_note_id(self)
        q == Strip(self.input_value)
    IN  IF self.mode # "SEARCH" THEN self
        ELSE IF is_in_results /\ nid # None THEN enter_edit(self, nid)
        ELSE IF q # <<>>
        THEN LET pairs == search(self.notes, q, 1)
             IN  IF pairs # <<>> THEN enter_edit(self, pairs[1])
                 ELSE LET u == upsert(self.notes, self.seq, t, q, <<>>, None, NULL)
                      IN  enter_edit(
                            refresh_search(
                              [self EXCEPT !.notes = u.rows, !.seq = u.seq], q),
                            u.id)
        ELSE IF nid # None THEN enter_edit(self, nid)
        ELSE self

\* a variant of action_toggle_mark that leaves the cursor where set_items put it
action_toggle_mark_staying(self) ==
    LET nid == current_note_id(self)
    IN  IF self.mode = "EDIT" \/ nid = None THEN self
        ELSE refresh_results(
               [self EXCEPT !.marked = IF nid \in self.marked
                                       THEN self.marked \ {nid}
                                       ELSE self.marked \cup {nid}])

action_toggle_mark(self) ==
    LET nid == current_note_id(self)
        flipped == refresh_results(
                     [self EXCEPT !.marked = IF nid \in self.marked
                                             THEN self.marked \ {nid}
                                             ELSE self.marked \cup {nid}])
        n == Len(Truncate(self.matches, max_rows))
    IN  IF self.mode = "EDIT" \/ nid = None THEN self
        ELSE IF self.index # NoIndex /\ n > 0
        THEN [flipped EXCEPT !.index = Min(self.index + 1, n - 1)]
        ELSE flipped

\* a variant of action_clear_all_marks without the test of the mode
action_clear_all_marks_any_mode(self) ==
    IF self.marked = {} THEN self
    ELSE refresh_results([self EXCEPT !.marked = {}])

action_clear_all_marks(self) ==
    IF self.mode = "EDIT" \/ self.marked = {} THEN self
    ELSE refresh_results([self EXCEPT !.marked = {}])

\* a variant of action_mark_all that marks every note of the store
action_mark_all_whole_store(self) ==
    IF self.mode = "EDIT" \/ self.matches = <<>> THEN self
    ELSE refresh_results([self EXCEPT !.marked = self.marked \cup DOMAIN self.notes])

action_mark_all(self) ==
    IF self.mode = "EDIT" \/ self.matches = <<>> THEN self
    ELSE refresh_results(
           [self EXCEPT !.marked = self.marked
                                   \cup {self.matches[k] : k \in 1..Len(self.matches)}])

\* ListView.action_cursor_down and action_cursor_up keep the cursor in the list
action_cursor_down(self) ==
    LET n == Len(Truncate(self.matches, max_rows))
    IN  IF self.mode = "EDIT" THEN self
        ELSE [self EXCEPT !.index = IF n = 0 THEN NoIndex
                                    ELSE Min(self.index + 1, n - 1)]

action_cursor_up(self) ==
    LET n == Len(Truncate(self.matches, max_rows))
    IN  IF self.mode = "EDIT" THEN self
        ELSE [self EXCEPT !.index = IF n = 0 THEN NoIndex
                                    ELSE Max(self.index - 1, 0)]

\* BrowseScreen.__init__ and on_mount: a card for each marked note, by id
BrowseCards(self) ==
    SelectSeq(SetToSeq(self.marked), LAMBDA nid : get(self.notes, nid))

\* a variant of action_toggle_browse_mode without the test of the marks
action_toggle_browse_mode_unguarded(self) ==
    IF self.mode = "EDIT" THEN self
    ELSE [self EXCEPT !.screens = Append(self.screens, "browse"),
                      !.cards = BrowseCards(self),
                      !.current_index = 0,
                      !.browse_worker = TRUE]

\* action_toggle_browse_mode: the worker of _launch_browse_mode pushes the
\* BrowseScreen and waits for it
action_toggle_browse_mode(self) ==
    IF self.mode = "EDIT" \/ self.marked = {} THEN self
    ELSE [self EXCEPT !.screens = Append(self.screens, "browse"),
                      !.cards = BrowseCards(self),
                      !.current_index = 0,
                      !.browse_worker = TRUE]

\* action_import_notes: run_worker(exclusive=True) cancels the worker of
\* _launch_browse_mode when there is one, and _do_import pushes the ImportDialog
action_import_notes(self) ==
    [self EXCEPT !.screens = Append(self.screens, "import"),
                 !.browse_worker = FALSE]

\* a variant of action_save_edit that hands the note's import_hash back to upsert
action_save_edit_keeping_hash(self, t) ==
    LET nid == self.editing_note_id
    IN  IF self.mode # "EDIT" \/ nid = None \/ ~get(self.notes, nid) THEN self
        ELSE LET u == upsert(self.notes, self.seq, t, self.notes[nid].title,
                             self.editor_text, nid, self.notes[nid].import_hash)
             IN  refresh_search(
                   [self EXCEPT !.notes = u.rows, !.seq = u.seq,
                                !.original_body = self.editor_text],
                   self.input_value)

action_save_edit(self, t) ==
    LET nid == self.editing_note_id
    IN  IF self.mode # "EDIT" \/ nid = None \/ ~get(self.notes, nid) THEN self
        ELSE LET u == upsert(self.notes, self.seq, t, self.notes[nid].title,
                             self.editor_text, nid, NULL)
             IN  refresh_search(
                   [self EXCEPT !.notes = u.rows, !.seq = u.seq,
                                !.original_body = self.editor_text],
                   self.input_value)

on_input_changed(self, text) ==
    LET typed == [self EXCEPT !.input_value = text]
    IN  IF StartsWith(text, ":") \/ self.mode = "EDIT" THEN typed
        ELSE refresh_search(typed, text)

Quit == {<<"q", "u", "i", "t">>, <<"q">>}

\* a variant of run_command whose quit leaves editing_note_id as it is
run_command_keeping_id(self, cmdline) ==
    LET cmd == PyLower(FirstToken(cmdline))
    IN  IF cmd \in Quit /\ self.mode = "EDIT"
        THEN [self EXCEPT !.mode = "SEARCH", !.original_body = <<>>]
        ELSE self

\* a variant of run_command whose quit saves the editor text first
run_command_saving(self, cmdline) ==
    LET cmd == PyLower(FirstToken(cmdline))
        saved == action_save_edit(self, 0)
    IN  IF cmd \in Quit /\ self.mode = "EDIT"
        THEN [saved EXCEPT !.mode = "SEARCH",
                           !.editing_note_id = None,
                           !.original_body = <<>>]
        ELSE self

run_command(self, cmdline) ==
    LET cmd == PyLower(FirstToken(cmdline))
    IN  IF cmd \in Quit /\ self.mode = "EDIT"
        THEN [self EXCEPT !.mode = "SEARCH",
                          !.editing_note_id = None,
                          !.original_body = <<>>]
        ELSE self

\* a variant of on_input_submitted that takes a command for a query
on_input_submitted_searching(self, t) == action_open_or_edit(self, t, FALSE)

on_input_submitted(self, t) ==
    LET text == Strip(self.input_value)
    IN  IF StartsWith(text, ":") THEN run_command(self, Strip(Tail(text)))
        ELSE action_open_or_edit(self, t, FALSE)

\* a variant of on_list_view_selected without the test of the mode
on_list_view_selected_any_mode(self) ==
    LET nid == current_note_id(self)
    IN  IF nid = None THEN self ELSE enter_edit(self, nid)

on_list_view_selected(self) ==
    LET nid == current_note_id(self)
    IN  IF self.mode # "SEARCH" \/ nid = None THEN self
        ELSE enter_edit(self, nid)

Pop(self) == [self EXCEPT !.screens = SubSeq(self.screens, 1, Len(self.screens) - 1)]

\* the loop of _do_import over the files the dialog returned
do_import_loop(self, t, result) ==
    ImportLoop(ImportStart(self.notes, self.seq), t, result)

\* a variant of do_import that shows the imported notes in SEARCH
do_import_leaving_edit(self, t, result) ==
    LET popped == Pop(self)
        acc == do_import_loop(self, t, result)
        stored == [popped EXCEPT !.notes = acc.rows, !.seq = acc.seq]
        marks == [stored EXCEPT !.marked = stored.marked
                                           \cup {acc.ids[k] : k \in 1..Len(acc.ids)}]
    IN  IF result = <<>> THEN popped
        ELSE IF acc.raised THEN stored
        ELSE IF Top(popped) # "main" THEN marks
        ELSE refresh_search([marks EXCEPT !.input_value = <<>>,
                                          !.mode = "SEARCH",
                                          !.editing_note_id = None,
                                          !.original_body = <<>>], <<>>)

\* _do_import once the ImportDialog is dismissed with result (<<>> for None).
\* self._input() is query_one on the app, which looks in the screen on top:
\* with the BrowseScreen there it raises NoMatches, caught like any Exception.
do_import(self, t, result) ==
    LET popped == Pop(self)
        acc == do_import_loop(self, t, result)
        stored == [popped EXCEPT !.notes = acc.rows, !.seq = acc.seq]
        marks == [stored EXCEPT !.marked = stored.marked
                                           \cup {acc.ids[k] : k \in 1..Len(acc.ids)}]
    IN  IF result = <<>> THEN popped
        ELSE IF acc.raised THEN stored
        ELSE IF Top(popped) # "main" THEN marks
        ELSE refresh_search([marks EXCEPT !.input_value = <<>>], <<>>)

\* action_export_notes changes nothing of the app; what it hands to the
\* store and gets back: <<0>> refused for want of marks, <<1>> ~/Downloads
\* missing, <<2, n>> n files written
\* a variant of export_notes_result that goes to the store without marks too
export_notes_result_unrefused(self, downloads_exists) ==
    LET note_ids == Ids(SetToSeq(self.marked))
        e == export_separate_files(self.notes, note_ids)
    IN  IF ~downloads_exists THEN [ret |-> <<1>>, files |-> {}, note_ids |-> NoIds]
        ELSE [ret |-> <<2, e.n>>, files |-> e.files, note_ids |-> note_ids]

\* note_ids is the list handed to export_separate_files (NoIds when the
\* store is not called)
export_notes_result(self, downloads_exists) ==
    IF self.marked = {} THEN [ret |-> <<0>>, files |-> {}, note_ids |-> NoIds]
    ELSE IF ~downloads_exists THEN [ret |-> <<1>>, files |-> {}, note_ids |-> NoIds]
    ELSE LET note_ids == Ids(SetToSeq(self.marked))
             e == export_separate_files(self.notes, note_ids)
         IN  [ret |-> <<2, e.n>>, files |-> e.files, note_ids |-> note_ids]

action_export_notes(self) == self

(* BrowseScreen *)

browse_focused(self) ==
    IF self.cards # <<>> THEN self.cards[self.current_index + 1] ELSE None

browse_cursor_down(self) ==
    IF self.cards # <<>> /\ self.current_index < Len(self.cards) - 1
    THEN [self EXCEPT !.current_index = self.current_index + 1]
    ELSE self

browse_cursor_up(self) ==
    IF self.cards # <<>> /\ self.current_index > 0
    THEN [self EXCEPT !.current_index = self.current_index - 1]
    ELSE self

\* the rest of _launch_browse_mode, run when the screen it waits for is
\* dismissed with result
launch_browse_mode_resume(self, result) ==
    LET shown == refresh_results(self)
    IN  IF result # None
        THEN enter_edit([shown EXCEPT !.mode = "SEARCH"], result)
        ELSE shown

\* a variant of browse_dismiss that drops the marks on the way out
browse_dismiss_unmarking(self, result) ==
    LET popped == [Pop(self) EXCEPT !.cards = <<>>, !.current_index = 0,
                                    !.browse_worker = FALSE, !.marked = {}]
    IN  IF self.browse_worker THEN launch_browse_mode_resume(popped, result)
        ELSE popped

\* dismiss: the screen is popped; the worker waiting for it, if it was not
\* cancelled, goes on
browse_dismiss(self, result) ==
    LET popped == [Pop(self) EXCEPT !.cards = <<>>, !.current_index = 0,
                                    !.browse_worker = FALSE]
    IN  IF self.browse_worker THEN launch_browse_mode_resume(popped, result)
        ELSE popped

browse_action_cancel(self) == browse_dismiss(self, None)

browse_action_select(self) ==
    IF browse_focused(self) # None THEN browse_dismiss(self, browse_focused(self))
    ELSE self

\* a variant of browse_action_toggle_mark that flips the mark in a copy of
\* the set and leaves the session's own set alone
browse_action_toggle_mark_on_copy(self) ==
    IF browse_focused(self) = None THEN self
    ELSE IF self.current_index < Len(self.cards) - 1
    THEN [self EXCEPT !.current_index = self.current_index + 1]
    ELSE self

browse_action_toggle_mark(self) ==
    LET note_id == browse_focused(self)
        flipped == [self EXCEPT !.marked = IF note_id \in self.marked
                                           THEN self.marked \ {note_id}
                                           ELSE self.marked \cup {note_id}]
    IN  IF note_id = None THEN self
        ELSE IF self.current_index < Len(self.cards) - 1
        THEN [flipped EXCEPT !.current_index = self.current_index + 1]
        ELSE flipped

browse_action_mark_all(self) ==
    [self EXCEPT !.marked = self.marked
                            \cup {self.cards[k] : k \in 1..Len(self.cards)}]

browse_action_clear_marks(self) == [self EXCEPT !.marked = {}]

browse_action_import_notes(self) == action_import_notes(self)

browse_action_export_notes(self) == action_export_notes(self)

----------------------------------------------------------------------------
(* The session as a state machine: one action for each intent. An intent  *)
(* that its handler turns down, or that leaves everything as it is, is no *)
(* step; import and export are recorded with what they return.            *)
(* Which widget holds the focus is the user's choice at any moment, so it *)
(* is an input of the one handler that asks (action_open_or_edit).        *)

NoRet == <<>>

\* a call as the history keeps it: the operation, its argument, what it
\* returned, the files it wrote and whether it raised
Call(op, arg, ret, files, raised) ==
    [op |-> op, arg |-> arg, ret |-> ret, files |-> files, raised |-> raised]

Assign(self, call) ==
    /\ self.seq <= MaxNotes
    /\ notes' = self.notes
    /\ seq' = self.seq
    /\ mode' = self.mode
    /\ editing_note_id' = self.editing_note_id
    /\ original_body' = self.original_body
    /\ editor_text' = self.editor_text
    /\ marked' = self.marked
    /\ matches' = self.matches
    /\ input_value' = self.input_value
    /\ index' = self.index
    /\ screens' = self.screens
    /\ cards' = self.cards
    /\ current_index' = self.current_index
    /\ browse_worker' = self.browse_worker
    /\ last' = call
    /\ UNCHANGED <<now, prev>>

Apply(op, self) == self # Self /\ Assign(self, Call(op, <<>>, NoRet, {}, FALSE))

\* moving a cursor is no intent: the history keeps the intent before it
Move(self) == self # Self /\ Assign(self, last)

NoCall == Call("none", <<>>, NoRet, {}, FALSE)

Init ==
    /\ notes = <<>>
    /\ seq = 0
    /\ now = 0
    /\ mode = "SEARCH"
    /\ editing_note_id = None
    /\ original_body = <<>>
    /\ editor_text = <<>>
    /\ marked = {}
    /\ matches = <<>>
    /\ input_value = <<>>
    /\ index = NoIndex
    /\ screens = <<"main">>
    /\ cards = <<>>
    /\ current_index = 0
    /\ browse_worker = FALSE
    /\ last = NoCall
    /\ prev = NoCall

OnMain == Top(Self) = "main"
OnBrowse == Top(Self) = "browse"

\* a second passes
Tick ==
    /\ now < MaxTime
    /\ now' = now + 1
    /\ UNCHANGED <<storeVars, sessionVars, last, prev>>

TypeQuery ==
    /\ OnMain
    /\ \E text \in Queries : Apply("input_changed", on_input_changed(Self, text))

InputSubmitted ==
    /\ OnMain
    /\ Apply("input_submitted", on_input_submitted(Self, now))

ListViewSelected ==
    /\ OnMain
    /\ Apply("list_view_selected", on_list_view_selected(Self))

EditText ==
    /\ OnMain
    /\ mode = "EDIT"
    /\ \E text \in EditorTexts :
          Apply("edit_text", [Self EXCEPT !.editor_text = text])

\* Escape; a step also when the handler refuses to leave EDIT
ModeBack ==
    /\ OnMain
    /\ mode = "EDIT"
    /\ Assign(action_mode_back(Self), Call("mode_back", <<>>, NoRet, {}, FALSE))

\* Enter outside the Input; the focus is wherever the user left it
OpenOrEdit ==
    /\ OnMain
    /\ \E is_in_results \in BOOLEAN :
          Apply("open_or_edit", action_open_or_edit(Self, now, is_in_results))

ToggleMark == OnMain /\ Apply("toggle_mark", action_toggle_mark(Self))

ClearAllMarks == OnMain /\ Apply("clear_all_marks", action_clear_all_marks(Self))

MarkAll == OnMain /\ Apply("mark_all", action_mark_all(Self))

CursorDown == OnMain /\ Move(action_cursor_down(Self))

CursorUp == OnMain /\ Move(action_cursor_up(Self))

ToggleBrowseMode == OnMain /\ Apply("toggle_browse_mode", action_toggle_browse_mode(Self))

SaveEdit == OnMain /\ Apply("save_edit", action_save_edit(Self, now))

\* what the ImportDialog can be dismissed with: None (<<>>) or selected files
DialogResults ==
    {Selection(picked) : picked \in SUBSET {DialogFiles[k] : k \in 1..Len(DialogFiles)}}

\* F2: action_import_notes, the ImportDialog and the rest of _do_import.
\* The dialog is modal: nothing else runs between its push and its dismissal.
ImportWith(pushed) ==
    \E result \in DialogResults :
        LET acc == do_import_loop(pushed, now, result)
        IN  IF result = <<>>
            THEN Apply("import_cancelled", do_import(pushed, now, result))
            ELSE Assign(do_import(pushed, now, result),
                        Call("import", <<>>, NoRet, {}, acc.raised))

ImportNotes == OnMain /\ ImportWith(action_import_notes(Self))

\* F3: action_export_notes; ~/Downloads may or may not be there. The export
\* is a step when the handler gets as far as the store.
ExportWith(self) ==
    \E downloads_exists \in BOOLEAN :
        LET e == export_notes_result(self, downloads_exists)
        IN  /\ e.ret[1] = 2
            /\ Assign(action_export_notes(self),
                      Call("export_notes", e.note_ids.ids, e.ret, e.files, FALSE))

ExportNotes == OnMain /\ ExportWith(Self)

BrowseCursorDown == OnBrowse /\ Move(browse_cursor_down(Self))

BrowseCursorUp == OnBrowse /\ Move(browse_cursor_up(Self))

BrowseCancel == OnBrowse /\ Apply("browse_cancel", browse_action_cancel(Self))

BrowseSelect == OnBrowse /\ Apply("browse_select", browse_action_select(Self))

BrowseToggleMark == OnBrowse /\ Apply("browse_toggle_mark", browse_action_toggle_mark(Self))

BrowseMarkAll == OnBrowse /\ Apply("browse_mark_all", browse_action_mark_all(Self))

BrowseClearMarks == OnBrowse /\ Apply("browse_clear_marks", browse_action_clear_marks(Self))

BrowseImportNotes == OnBrowse /\ ImportWith(browse_action_import_notes(Self))

BrowseExportNotes == OnBrowse /\ ExportWith(Self)

Next ==
    \/ Tick
    \/ TypeQuery
    \/ InputSubmitted
    \/ ListViewSelected
    \/ EditText
    \/ ModeBack
    \/ OpenOrEdit
    \/ ToggleMark
    \/ ClearAllMarks
    \/ MarkAll
    \/ CursorDown
    \/ CursorUp
    \/ ToggleBrowseMode
    \/ SaveEdit
    \/ ImportNotes
    \/ ExportNotes
    \/ BrowseCursorDown
    \/ BrowseCursorUp
    \/ BrowseCancel
    \/ BrowseSelect
    \/ BrowseToggleMark
    \/ BrowseMarkAll
    \/ BrowseClearMarks
    \/ BrowseImportNotes
    \/ BrowseExportNotes

Spec == Init /\ [][Next]_vars

----------------------------------------------------------------------------
(* The repository on its own: a caller runs the operations of NoteStore   *)
(* one after the other. last is the call just made; prev is the call     *)
(* before it when that was an import_text_file, and NoCall otherwise.     *)

\* the arguments the caller passes
RepoTitles == {<<"a">>, <<"D">>}
RepoBodies == {<<>>, <<"x">>}
RepoFiles == {F_a_md, F_a_markdown, F_C_md, F_D_MD, F_abar_md, F_a_txt}
Directories == {DirEntries, DirEntries \ {F_C_md}, {F_a_md, F_e_py}, {}}
RepoIdLists == {<<>>, <<1>>, <<1, 1>>, <<2, 1>>, <<3>>, <<1, 3>>}
RepoQueries == {<<>>, <<" ">>, <<"a">>, <<"d">>, <<"_">>}
RepoLimits == {1, max_rows}

Returned(rows, sq, call) ==
    /\ sq <= MaxNotes
    /\ notes' = rows
    /\ seq' = sq
    /\ last' = call
    /\ prev' = IF last.op = "import_text_file" THEN last ELSE NoCall
    /\ UNCHANGED <<now, sessionVars>>

RepoUpsert ==
    \E title \in RepoTitles, body \in RepoBodies, note_id \in 0..(MaxNotes + 1) :
        LET u == upsert(notes, seq, now, title, body, note_id, NULL)
        IN  Returned(u.rows, u.seq,
                     Call("upsert", <<title, body, note_id>>, <<u.id>>, {}, FALSE))

\* import_text_file; path.read_text raises on a file that cannot be read
RepoImportTextFile ==
    \E f \in RepoFiles :
        IF f.readable
        THEN LET r == import_text_file(notes, seq, now, f)
             IN  Returned(r.rows, r.seq, Call("import_text_file", f, r.ret, {}, FALSE))
        ELSE Returned(notes, seq, Call("import_text_file", f, NoRet, {}, TRUE))

RepoImportDirectory ==
    \E dir \in Directories :
        LET acc == import_directory(notes, seq, now, dir, import_extensions)
        IN  Returned(acc.rows, acc.seq,
                     Call("import_directory", dir,
                          IF acc.raised THEN NoRet
                          ELSE <<acc.imported, acc.skipped, acc.ids>>,
                          {}, acc.raised))

\* export_separate_files with a list of ids, or without one
RepoExport ==
    \E note_ids \in {NoIds} \cup {Ids(list) : list \in RepoIdLists} :
        LET e == export_separate_files(notes, note_ids)
        IN  Returned(notes, seq,
                     Call("export_separate_files", note_ids, <<e.n>>, e.files, FALSE))

RepoSearch ==
    \E text \in RepoQueries, limit \in RepoLimits :
        Returned(notes, seq,
                 Call("search", <<text, limit>>, search(notes, text, limit), {}, FALSE))

RepoNext ==
    \/ Tick
    \/ RepoUpsert
    \/ RepoImportTextFile
    \/ RepoImportDirectory
    \/ RepoExport
    \/ RepoSearch

SpecRepo == Init /\ [][RepoNext]_vars

----------------------------------------------------------------------------
(* Properties of the session: leaving EDIT, saving, searching *)

Unsaved == mode = "EDIT" /\ editor_text # original_body

\* C1: in EDIT mode, back/escape moves the session to SEARCH exactly when the
\* editor text equals original_body; when it differs the intent is refused,
\* and mode, editing_note_id, original_body, the editor text and every
\* stored note stay as they are.
BackLeavesEditOnlyWhenSaved ==
    [][ModeBack =>
         /\ (mode' = "SEARCH") <=> (editor_text = original_body)
         /\ editor_text # original_body =>
              /\ mode' = mode
              /\ editing_note_id' = editing_note_id
              /\ original_body' = original_body
              /\ editor_text' = editor_text
              /\ notes' = notes]_vars

\* back was asked for over unsaved text, and the session is still in EDIT
BackRefusedOverUnsavedText == last.op = "mode_back" /\ Unsaved

\* the command texts of the claim
QuitTexts == {<<":", "q">>, <<":", "q", "u", "i", "t">>}

\* C2: a quit command (:q or :quit) submitted in EDIT mode ends in SEARCH with
\* editing_note_id cleared whatever the editor holds, and writes nothing to
\* the store: the stored title, body and updated_at of the edited note, and
\* of every other note, are as before.
QuitAlwaysLeavesEditWithoutWriting ==
    mode = "EDIT" =>
        \A text \in QuitTexts :
            LET after == on_input_submitted(on_input_changed(Self, text), now)
            IN  /\ after.mode = "SEARCH"
                /\ after.editing_note_id = None
                /\ after.notes = notes
                /\ after.seq = seq

\* :q was submitted in EDIT over text that the store does not hold
QuitDiscardedUnsavedText ==
    /\ last.op = "input_submitted"
    /\ input_value \in QuitTexts
    /\ mode = "SEARCH"
    /\ editing_note_id = None
    /\ count(notes) = 1
    /\ notes[1].body # editor_text

\* the step is a quit command submitted in the search Input
QuitStep ==
    /\ InputSubmitted
    /\ StartsWith(Strip(input_value), ":")
    /\ PyLower(FirstToken(Strip(Tail(Strip(input_value))))) \in Quit

\* C3: over every run of the session, a step that leaves EDIT mode or puts
\* another text in the editor while the editor text differs from
\* original_body is the quit command (the user's own typing in the editor
\* aside): no other intent discards unsaved editor content.
OnlyQuitDiscardsUnsavedText ==
    [][(Unsaved /\ ~EditText /\ (mode' # "EDIT" \/ editor_text' # editor_text))
         => QuitStep]_vars

\* an import ran in EDIT over unsaved text, and the text is still there
ImportKeptUnsavedText == last.op = "import" /\ ~last.raised /\ Unsaved

\* C4: a save in EDIT mode on an existing note sets the stored body of
\* editing_note_id to the editor text, keeps the note's title and created_at,
\* sets original_body to the saved text, changes no other note, and leaves
\* mode = EDIT and editing_note_id as they are.
SaveWritesOnlyTheBodyOfTheEditedNote ==
    (mode = "EDIT" /\ get(notes, editing_note_id)) =>
        LET after == action_save_edit(Self, now)
            nid == editing_note_id
        IN  /\ DOMAIN after.notes = DOMAIN notes
            /\ after.notes[nid].body = editor_text
            /\ after.notes[nid].title = notes[nid].title
            /\ after.notes[nid].created_at = notes[nid].created_at
            /\ \A i \in DOMAIN notes \ {nid} : after.notes[i] = notes[i]
            /\ after.original_body = editor_text
            /\ after.mode = "EDIT"
            /\ after.editing_note_id = nid

\* a note made earlier was saved with a new body while another note exists
SavedAnOlderNoteBesideAnother ==
    /\ last.op = "save_edit"
    /\ mode = "EDIT"
    /\ count(notes) = 2
    /\ notes[editing_note_id].created_at < notes[editing_note_id].updated_at
    /\ notes[editing_note_id].body = editor_text
    /\ editor_text # <<>>
    /\ original_body = editor_text

\* the query texts of the claim: blank ones, one that notes match, one that
\* no note matches
SearchTexts == Queries \cup {<<" ">>, <<"z">>}

\* C5: running a search (refresh_search with any query text, also one whose
\* results leave marked notes out) leaves the marked set as it is.
SearchKeepsMarks ==
    \A text \in SearchTexts : refresh_search(Self, text).marked = marked

\* a query was typed whose results leave a marked note out
SearchedPastAMarkedNote ==
    /\ last.op = "input_changed"
    /\ mode = "SEARCH"
    /\ matches = search(notes, input_value, max_rows)
    /\ \E m \in marked : \A k \in 1..Len(matches) : matches[k] # m

----------------------------------------------------------------------------
(* Properties of the marked set and of import and export *)

\* the step is one of the explicit marking actions, in the main session or
\* inside Browse
MarkingStep ==
    \/ ToggleMark
    \/ MarkAll
    \/ ClearAllMarks
    \/ BrowseToggleMark
    \/ BrowseMarkAll
    \/ BrowseClearMarks

ImportStep == ImportNotes \/ BrowseImportNotes

\* C6, as the claim states it: in every step of every session run the marked
\* set changes only when the step is an explicit mark, unmark, mark-all or
\* clear-marks action; every other intent, import included, leaves it as it is.
MarksChangeOnlyByMarking == [][marked' # marked => MarkingStep]_vars

\* C6, amended: the marked set changes only in an explicit marking action or
\* in an import, and an import only adds ids of notes that it created.
MarksChangeOnlyByMarkingOrImport ==
    [][marked' # marked =>
         \/ MarkingStep
         \/ /\ ImportStep
            /\ marked \subseteq marked'
            /\ marked' \ marked \subseteq DOMAIN notes' \ DOMAIN notes]_vars

\* an import created a note and marked it, beside a mark set by hand before
ImportAddedAMark ==
    /\ last.op = "import"
    /\ marked = {1, 2}
    /\ notes[1].import_hash = NULL
    /\ notes[2].import_hash # NULL

SameFile(f, g) == f.stem = g.stem /\ f.content = g.content

\* C7: importing the same file (same stem, same content) twice in a row,
\* from a store with no note holding its dedup hash: the first
\* import_text_file returns (1, 0, id) with id a new note, the second returns
\* (0, 1, None) and writes nothing, so count() ends exactly 1 higher than
\* before the first call.
ImportTwiceAddsOneNote ==
    [][(last'.op = "import_text_file" /\ RepoImportTextFile /\ ~last'.raised) =>
         LET f == last'.arg
             title == IF f.stem # <<>> THEN f.stem ELSE Untitled
         IN  /\ ~note_exists_by_hash(notes, compute_hash(title, f.content)) =>
                  /\ last'.ret = <<1, 0, seq + 1>>
                  /\ ~get(notes, seq + 1)
                  /\ get(notes', seq + 1)
                  /\ count(notes') = count(notes) + 1
             /\ (/\ last.op = "import_text_file"
                 /\ ~last.raised
                 /\ SameFile(last.arg, f)
                 /\ last.ret[1] = 1) =>
                  /\ last'.ret = <<0, 1, None>>
                  /\ notes' = notes
                  /\ seq' = seq]_vars

\* the same file was imported twice in a row: a new note, then a skip
ImportedTwiceInARow ==
    /\ prev.op = "import_text_file"
    /\ last.op = "import_text_file"
    /\ ~prev.raised
    /\ ~last.raised
    /\ SameFile(prev.arg, last.arg)
    /\ prev.ret[1] = 1
    /\ get(notes, prev.ret[3])
    /\ last.ret = <<0, 1, None>>

\* C8: when an import over a non-empty list of selected files finishes,
\* every note that the import created in the store is in the marked set, and
\* the query is empty with the match list recomputed for the empty query.
ImportMarksWhatItCreated ==
    [][(ImportStep /\ last'.op = "import") =>
         /\ DOMAIN notes' \ DOMAIN notes \subseteq marked'
         /\ input_value' = <<>>
         /\ matches' = search(notes', <<>>, max_rows)]_vars

\* the files of a batch that can be read, for given extensions
Readable(batch, extensions) ==
    {f \in batch : Importable(f, extensions) /\ f.readable}

\* C9: in a batch import a file whose read fails aborts only that file: it is
\* counted neither as imported nor as skipped, and every other file of the
\* batch, those after it included, is still processed by import_text_file
\* (after which the store holds a note with the file's dedup hash).
ImportDirectorySkipsOnlyTheUnreadable ==
    last.op = "import_directory" =>
        /\ ~last.raised
        /\ last.ret[1] + last.ret[2]
             = Cardinality(Readable(last.arg, import_extensions))
        /\ \A f \in Readable(last.arg, import_extensions) :
              note_exists_by_hash(notes, compute_hash(f.stem, f.content))

\* C10: for every store and every list of ids given (empty, with unknown
\* ids, with repeated ids), export_separate_files returns the number of ids
\* of the list that resolve to stored notes and writes one file for each
\* note they name, no two notes under the same file name.
ExportWritesTheListedNotes ==
    (last.op = "export_separate_files" /\ last.arg.given) =>
        LET ids == last.arg.ids
            hits == {k \in 1..Len(ids) : get(notes, ids[k])}
            found == {ids[k] : k \in hits}
        IN  /\ last.ret = <<Cardinality(hits)>>
            /\ Cardinality(last.files) = Cardinality(found)
            /\ {file.name : file \in last.files}
                 = {ExportName(i, notes[i].title) : i \in found}
            /\ \A i, j \in found :
                  i # j => ExportName(i, notes[i].title) # ExportName(j, notes[j].title)

----------------------------------------------------------------------------
(* Properties of the repository: ids, updates, search *)

\* C12: across every sequence of repository operations, an upsert without an
\* id raises count() by exactly 1, leaves the notes there were as they are,
\* and returns an id that no note has held before and that is greater than
\* every id given out before; ids stay with their notes and none is given
\* twice.
IdsAreFreshAndIncreasing ==
    [][/\ \A i \in DOMAIN notes : i <= seq
       /\ DOMAIN notes \subseteq DOMAIN notes'
       /\ seq' >= seq
       /\ \A i \in DOMAIN notes' \ DOMAIN notes : i > seq /\ i <= seq'
       /\ (last'.op = "upsert" /\ RepoUpsert /\ last'.arg[3] = None) =>
             /\ count(notes') = count(notes) + 1
             /\ last'.ret[1] \notin DOMAIN notes
             /\ last'.ret[1] > seq
             /\ DOMAIN notes' = DOMAIN notes \cup {last'.ret[1]}
             /\ \A i \in DOMAIN notes : notes'[i] = notes[i]]_vars

\* an upsert without an id made the second note, after an import made the first
UpsertGaveTheNextId ==
    /\ last.op = "upsert"
    /\ last.arg[3] = None
    /\ last.ret = <<2>>
    /\ count(notes) = 2
    /\ notes[1].import_hash # NULL

\* C13: upsert with an id that no stored note has creates no row and changes
\* no note: the store and count() are as before, get(id) still finds nothing,
\* and the call returns the id given.
UpsertOfUnknownIdChangesNothing ==
    \A title \in RepoTitles, body \in RepoBodies, note_id \in 1..(MaxNotes + 1) :
        ~get(notes, note_id) =>
            LET u == upsert(notes, seq, now, title, body, note_id, NULL)
            IN  /\ u.rows = notes
                /\ u.seq = seq
                /\ count(u.rows) = count(notes)
                /\ ~get(u.rows, note_id)
                /\ u.id = note_id

\* upsert was called on a store of one note with an id that no note has
UpsertCalledWithAnUnknownId ==
    /\ last.op = "upsert"
    /\ last.arg[3] # None
    /\ ~get(notes, last.arg[3])
    /\ last.ret = <<last.arg[3]>>
    /\ count(notes) = 1

\* q occurs in s as it stands
Contains(s, q) ==
    \E k \in 0..(Len(s) - Len(q)) : SubSeq(s, k + 1, k + Len(q)) = q

\* C14: for every non-blank query q, whatever characters it holds,
\* search(q, limit) returns notes whose title or body contains q as a literal
\* substring, letter case aside, and only those, as many as the limit allows.
SearchFindsLiteralSubstrings ==
    (last.op = "search" /\ Strip(last.arg[1]) # <<>>) =>
        LET q == PyLower(last.arg[1])
            holding == {i \in DOMAIN notes :
                          \/ Contains(PyLower(notes[i].title), q)
                          \/ Contains(PyLower(notes[i].body), q)}
            ret == last.ret
        IN  /\ {ret[k] : k \in 1..Len(ret)} \subseteq holding
            /\ Len(ret) = Min(last.arg[2], Cardinality(holding))

\* the blank query texts
BlankTexts == {<<>>, <<" ">>, <<"\n", " ">>}

\* C15: for an empty or whitespace-only query, search returns
\* min(limit, count()) notes, each with an updated_at not below that of the
\* result after it, and no note left out has an updated_at above that of a
\* note returned.
BlankSearchReturnsTheNewest ==
    \A text \in BlankTexts, limit \in RepoLimits :
        LET ret == search(notes, text, limit)
            got == {ret[k] : k \in 1..Len(ret)}
        IN  /\ Len(ret) = Min(limit, count(notes))
            /\ Cardinality(got) = Len(ret)
            /\ got \subseteq DOMAIN notes
            /\ \A k \in 1..(Len(ret) - 1) :
                  notes[ret[k]].updated_at >= notes[ret[k + 1]].updated_at
            /\ \A i \in DOMAIN notes \ got, j \in got :
                  notes[i].updated_at <= notes[j].updated_at

\* a blank search with limit 1 returned the first note, updated after the
\* second was made, and left the second out
BlankSearchCutToTheNewest ==
    /\ last.op = "search"
    /\ Strip(last.arg[1]) = <<>>
    /\ last.arg[2] = 1
    /\ count(notes) = 2
    /\ notes[1].updated_at > notes[2].updated_at
    /\ last.ret = <<1>>

----------------------------------------------------------------------------
(* Properties of Browse and of the edit request *)

\* C16: the marking actions of a Browse sub-session act on the marked set of
\* the session itself: toggle flips the focused card's id, mark-all adds the
\* ids of the cards, clear empties the set, moving the cursor and leaving
\* Browse change nothing of it; so at the exit the session's marked set is the
\* set at entry with those actions applied.
BrowseMarksActOnTheSessionsSet ==
    [][/\ BrowseToggleMark =>
             LET note_id == cards[current_index + 1]
             IN  marked' = IF note_id \in marked THEN marked \ {note_id}
                           ELSE marked \cup {note_id}
       /\ BrowseMarkAll => marked' = marked \cup {cards[k] : k \in 1..Len(cards)}
       /\ BrowseClearMarks => marked' = {}
       /\ (BrowseCursorDown \/ BrowseCursorUp \/ BrowseExportNotes) => marked' = marked
       /\ (BrowseCancel \/ BrowseSelect) =>
             /\ marked' = marked
             /\ screens' = <<"main">>]_vars

\* Browse was entered over notes 1 and 2, note 2 was unmarked in it and then
\* chosen for editing: the session is left with note 1 marked
BrowseUnmarkedOneOfTwo ==
    /\ last.op = "browse_select"
    /\ screens = <<"main">>
    /\ mode = "EDIT"
    /\ editing_note_id = 2
    /\ marked = {1}

\* C17: a Browse sub-session starts only from a session that is not in EDIT
\* and has marks (a browse request in EDIT or without marks starts nothing),
\* and its cards are the notes whose ids are marked at that moment, each once.
BrowseShowsTheMarkedNotes ==
    [][/\ (mode = "EDIT" \/ marked = {}) => action_toggle_browse_mode(Self) = Self
       /\ ((\A k \in 1..Len(screens) : screens[k] # "browse")
             /\ (\E k \in 1..Len(screens') : screens'[k] = "browse"))
            => ToggleBrowseMode
       /\ ToggleBrowseMode =>
             /\ mode # "EDIT"
             /\ marked # {}
             /\ screens' = <<"main", "browse">>
             /\ {cards'[k] : k \in 1..Len(cards')} = marked
             /\ Len(cards') = Cardinality(marked)
             /\ marked' = marked
             /\ notes' = notes]_vars

\* Browse was entered with one of two notes marked and shows that note alone
BrowseOpenedOverOneOfTwo ==
    /\ last.op = "toggle_browse_mode"
    /\ OnBrowse
    /\ count(notes) = 2
    /\ marked = {2}
    /\ cards = <<2>>

\* C18: while a Browse sub-session is active no intent that writes to the
\* store runs (none that would start a second sub-session and import from
\* it): from the entry of Browse to its exit the store's notes are unchanged.
NoStoreWriteDuringBrowse == [][OnBrowse => notes' = notes]_vars

\* the query texts of an edit request: matching or not, with blanks around,
\* with a character that LIKE reads as a wildcard
EditQueries == {<<"a">>, <<" ", "a">>, <<"z">>, <<"_">>}

EmptyQueryEditRequestDoesNothing ==
    (mode = "SEARCH" /\ OnMain /\ Strip(input_value) = <<>>) =>
        LET after == action_open_or_edit(Self, now, FALSE)
        IN  /\ after.mode = "SEARCH"
            /\ after.editing_note_id = None
            /\ after.notes = notes

----------------------------------------------------------------------------
(* Properties of marking, of commands and of unknown ids *)

\* C21: toggle_mark, mark_all and clear_marks issued in EDIT change nothing
\* (marked set, mode, cursor, or anything else of the session), and in any
\* mode they change no stored note and no count().
MarkingIsRefusedInEdit ==
    LET results == {action_toggle_mark(Self), action_mark_all(Self),
                    action_clear_all_marks(Self)}
    IN  /\ mode = "EDIT" => \A after \in results : after = Self
        /\ \A after \in results :
              /\ after.notes = notes
              /\ after.seq = seq
              /\ count(after.notes) = count(notes)

\* the session is in EDIT over a list of two rows, one of them marked: each
\* of the three operations would change the marks if it were not refused
EditingWithMarksAndMatches ==
    /\ mode = "EDIT"
    /\ Len(matches) = 2
    /\ Cardinality(marked) = 1
    /\ index # NoIndex

\* C22: mark_all in SEARCH makes the marked set its previous value united
\* with the ids of the current match list, which holds at most max_rows ids
\* of stored notes, and adds no id from outside that list; clear_marks makes
\* the marked set empty.
MarkAllAddsTheMatches ==
    (mode = "SEARCH" /\ OnMain) =>
        LET listed == {matches[k] : k \in 1..Len(matches)}
        IN  /\ action_mark_all(Self).marked = marked \cup listed
            /\ Len(matches) <= max_rows
            /\ listed \subseteq DOMAIN notes
            /\ action_clear_all_marks(Self).marked = {}

\* mark_all ran over a search that lists one of the two stored notes, and
\* marked that one alone
MarkedAllOfANarrowedSearch ==
    /\ last.op = "mark_all"
    /\ mode = "SEARCH"
    /\ count(notes) = 2
    /\ matches = <<1>>
    /\ marked = {1}

\* command texts: quit in its spellings, and the others (empty, help,
\* unknown)
QuitCommandTexts == {<<":", "q">>, <<":", "q", "u", "i", "t">>, <<":", "Q">>,
                     <<" ", ":", "q", " ">>}
OtherCommandTexts == {<<":">>, <<":", " ">>, <<":", "h", "e", "l", "p">>,
                      <<":", "x">>, <<":", "q", "q">>}

\* C23: submitting command text leaves mode, editing_note_id, original_body,
\* the marked set, the match list and the store (and the rest of the session)
\* as they are, in every case but quit/q in EDIT: an unknown command, help,
\* an empty command, and quit/q in SEARCH change nothing.
CommandsKeepTheState ==
    OnMain =>
        \A text \in QuitCommandTexts \cup OtherCommandTexts :
            (text \in OtherCommandTexts \/ mode = "SEARCH") =>
                LET typed == on_input_changed(Self, text)
                IN  on_input_submitted(typed, now) = typed

\* :q stands typed in the Input of a session in SEARCH that has marks and
\* matches
QuitTypedInSearch ==
    /\ last.op = "input_changed"
    /\ mode = "SEARCH"
    /\ input_value = <<":", "q">>
    /\ marked # {}
    /\ matches # <<>>

\* C24: entering edit on, or saving to, a note id that does not resolve in
\* the store changes nothing: mode, editing_note_id, original_body and the
\* store are as before and no note is created.
UnknownIdsOpenNothing ==
    \A nid \in 1..(MaxNotes + 1) :
        ~get(notes, nid) =>
            LET stale == [Self EXCEPT !.mode = "EDIT", !.editing_note_id = nid]
            IN  /\ enter_edit(Self, nid) = Self
                /\ action_save_edit(stale, now) = stale

\* the session holds unsaved editor text beside ids that no note has
EditingBesideAnUnknownId ==
    /\ Unsaved
    /\ count(notes) = 1
    /\ ~get(notes, 2)

----------------------------------------------------------------------------
(* Properties of import_hash, of the timestamps and of import_directory *)

\* C25: in every state reachable through session intents, no two stored
\* notes hold the same non-null import_hash.
ImportHashesAreUnique ==
    \A i, j \in DOMAIN notes :
        (i # j /\ notes[i].import_hash = notes[j].import_hash)
            => notes[i].import_hash = NULL

\* a file was imported, its note saved from the editor, and the same file
\* imported again: two notes of the same title and body, one hash
ReimportedAfterSave ==
    /\ last.op = "import"
    /\ count(notes) = 2
    /\ notes[1].title = notes[2].title
    /\ notes[1].body = notes[2].body
    /\ notes[1].import_hash = NULL
    /\ notes[2].import_hash = compute_hash(notes[2].title, notes[2].body)

\* C26: every stored note keeps the created_at stamped at its creation
\* through all later upserts, every upsert that targets the note sets its
\* updated_at to the time of the call, and created_at <= updated_at always
\* holds, the clock never going back.
TimestampsAreKept ==
    [][/\ now' >= now
       /\ \A i \in DOMAIN notes :
             /\ notes[i].created_at <= notes[i].updated_at
             /\ notes'[i].created_at = notes[i].created_at
             /\ notes'[i].created_at <= notes'[i].updated_at
             /\ notes'[i] # notes[i] => notes'[i].updated_at = now
       /\ \A i \in DOMAIN notes' \ DOMAIN notes :
             /\ notes'[i].created_at = now
             /\ notes'[i].updated_at = now
       /\ (last'.op = "upsert" /\ RepoUpsert /\ get(notes, last'.arg[3])) =>
             notes'[last'.arg[3]].updated_at = now]_vars

\* the first note, made at second 0, was the target of an upsert at second 1
UpsertRestampedANote ==
    /\ last.op = "upsert"
    /\ last.arg[3] = 1
    /\ now = 1
    /\ get(notes, 1)
    /\ notes[1].created_at = 0
    /\ notes[1].updated_at = 1

\* C27: the dedup hash separates pairs (title, body): pairs that differ in
\* title or in body give different digests, so import_text_file skips a file
\* only when a stored note has the file's title and the file's content.
ImportSkipsOnlyTheSameTitleAndContent ==
    (last.op = "import_text_file" /\ ~last.raised /\ last.ret[2] = 1) =>
        \E i \in DOMAIN notes :
            /\ notes[i].title = last.arg.stem
            /\ notes[i].body = last.arg.content

\* the files of a directory that import_directory takes
Eligible(dir) == {f \in dir : Importable(f, import_extensions)}

\* C28: import_directory over a directory whose eligible files can all be
\* read takes each eligible file once, in ascending order of file names, and
\* returns (imported, skipped, ids) with imported + skipped the number of
\* eligible files, len(ids) = imported, ids strictly increasing and the ids
\* of the notes made, and count() raised by exactly imported.
ImportDirectoryTakesEachFileInOrder ==
    [][(/\ last'.op = "import_directory"
        /\ RepoImportDirectory
        /\ \A f \in Eligible(last'.arg) : f.readable) =>
         LET ret == last'.ret
             ids == ret[3]
             files == Eligible(last'.arg)
         IN  /\ ~last'.raised
             /\ ret[1] + ret[2] = Cardinality(files)
             /\ Len(ids) = ret[1]
             /\ \A k \in 1..(Len(ids) - 1) : ids[k] < ids[k + 1]
             /\ {ids[k] : k \in 1..Len(ids)} = DOMAIN notes' \ DOMAIN notes
             /\ count(notes') = count(notes) + ret[1]
             /\ \A f \in files :
                   note_exists_by_hash(notes', compute_hash(f.stem, f.content))
             /\ \A k, l \in 1..Len(ids) :
                   k < l =>
                     \E f, g \in files :
                         /\ f.stem = notes'[ids[k]].title
                         /\ g.stem = notes'[ids[l]].title
                         /\ LexLess(Name(f), Name(g))]_vars

\* a directory was imported into the empty store: D.MD first, then
\* a.markdown, and a.md skipped for having the same stem and content
ImportedADirectoryInNameOrder ==
    /\ last.op = "import_directory"
    /\ ~last.raised
    /\ last.ret = <<2, 1, <<1, 2>>>>
    /\ notes[1].title = <<"D">>
    /\ notes[2].title = <<"a">>

\* C29: a note holds a non-null import_hash only if an import created it and
\* no upsert by id has targeted it since: the hash is that of its title and
\* body, a note made by an edit request has none, none is ever set on an
\* existing note, and a save from the editor sets the hash of the saved note
\* to null, after which note_exists_by_hash of the old hash holds only if
\* another note has it.
ImportHashOnlyFromImport ==
    [][/\ \A i \in DOMAIN notes :
             /\ notes[i].import_hash # NULL =>
                   notes[i].import_hash = compute_hash(notes[i].title, notes[i].body)
             /\ notes[i].import_hash = NULL => notes'[i].import_hash = NULL
             /\ notes'[i].import_hash # notes[i].import_hash => SaveEdit
       /\ \A i \in DOMAIN notes' \ DOMAIN notes :
             /\ notes'[i].import_hash # NULL => ImportStep
             /\ (OpenOrEdit \/ InputSubmitted) => notes'[i].import_hash = NULL
       /\ SaveEdit =>
             LET nid == editing_note_id
                 h == notes[nid].import_hash
             IN  /\ notes'[nid].import_hash = NULL
                 /\ h # NULL =>
                       (note_exists_by_hash(notes', h)
                          <=> \E i \in DOMAIN notes \ {nid} : notes[i].import_hash = h)]_vars

\* the note imported from D.MD was saved from the editor: it has no hash
\* now, and no note has the hash of the file
SavedOverAnImportedNote ==
    /\ last.op = "save_edit"
    /\ mode = "EDIT"
    /\ notes[editing_note_id].title = <<"D">>
    /\ notes[editing_note_id].import_hash = NULL
    /\ ~note_exists_by_hash(notes, compute_hash(<<"D">>, <<"x">>))

\* C30: when a Browse sub-session exits yielding nothing the session is in
\* SEARCH; when it yields the id of a note the session is at once in EDIT
\* with editing_note_id that id and original_body the note's stored body,
\* whether or not the note is still marked.
BrowseExitOpensTheChosenNote ==
    [][/\ BrowseCancel => mode' = "SEARCH"
       /\ BrowseSelect =>
             LET note_id == cards[current_index + 1]
             IN  /\ mode' = "EDIT"
                 /\ editing_note_id' = note_id
                 /\ original_body' = notes[note_id].body]_vars

----------------------------------------------------------------------------
(* Properties that hold of every state of the session *)

\* C31: toggle_mark in SEARCH with the cursor of the result list on row i of
\* n rows flips the membership in the marked set of the note at row i alone,
\* changes the membership of no other id, and moves the cursor to row
\* min(i+1, n-1); with no rows it changes nothing.
ToggleMarkFlipsTheRowAndAdvances ==
    (mode = "SEARCH" /\ OnMain) =>
        LET n == Len(Truncate(matches, max_rows))
            after == action_toggle_mark(Self)
        IN  /\ n = 0 => after = Self
            /\ n > 0 =>
                 /\ index \in 0..(n - 1)
                 /\ LET nid == matches[index + 1]
                    IN  /\ (nid \in after.marked) <=> (nid \notin marked)
                        /\ after.marked \ {nid} = marked \ {nid}
                        /\ after.index = Min(index + 1, n - 1)
                        /\ after = [Self EXCEPT !.marked = after.marked,
                                                !.index = after.index]

\* toggle_mark ran on the first of two rows: that note alone is marked and
\* the cursor is on the second row
ToggledTheFirstOfTwoRows ==
    /\ last.op = "toggle_mark"
    /\ mode = "SEARCH"
    /\ Len(matches) = 2
    /\ index = 1
    /\ marked = {matches[1]}

\* C32: in every state reachable through session intents every id of the
\* marked set is the id of a stored note, so an export of a non-empty marked
\* set writes as many files as there are marked ids.
MarkedNotesExistAndExportOneFileEach ==
    /\ marked \subseteq DOMAIN notes
    /\ marked # {} =>
          LET e == export_notes_result(Self, TRUE)
          IN  /\ e.ret = <<2, Cardinality(marked)>>
              /\ Cardinality({f.name : f \in e.files}) = Cardinality(marked)
    /\ last.op = "export_notes" =>
          Cardinality({f.name : f \in last.files}) = Cardinality(marked)

\* two marked notes of the same title were exported into two files
ExportedTwoMarkedNotesOfOneTitle ==
    /\ last.op = "export_notes"
    /\ marked = {1, 2}
    /\ notes[1].title = notes[2].title
    /\ Cardinality({f.name : f \in last.files}) = 2

\* C33: in every reachable state of the session mode = EDIT holds exactly
\* when editing_note_id is set, in EDIT editing_note_id is the id of a stored
\* note, and in SEARCH editing_note_id is unset and original_body is empty.
EditExactlyWhenEditingANote ==
    /\ mode \in {"SEARCH", "EDIT"}
    /\ (mode = "EDIT") <=> (editing_note_id # None)
    /\ mode = "EDIT" => get(notes, editing_note_id)
    /\ mode = "SEARCH" => (editing_note_id = None /\ original_body = <<>>)

\* quit sent the session back to SEARCH from the edit of a note whose body
\* is empty, with text in the editor that was not saved
QuitClearedTheEditOfANote ==
    /\ last.op = "input_submitted"
    /\ mode = "SEARCH"
    /\ editing_note_id = None
    /\ original_body = <<>>
    /\ editor_text # <<>>
    /\ count(notes) = 1
    /\ notes[1].body = <<>>

\* C34: in every reachable state with mode = SEARCH and a query Input that
\* holds no command text (does not start with ':'), the match list is the list
\* of ids that search(query text, max_rows) returns on the store as it is, in
\* that order.
MatchListIsTheSearchOfTheQuery ==
    (mode = "SEARCH" /\ ~StartsWith(input_value, ":")) =>
        matches = search(notes, input_value, max_rows)

\* C35: import and export issued in EDIT leave mode, editing_note_id,
\* original_body and the editor text as they are, and the stored title and
\* body of the note being edited too; unsaved editor text is still there and
\* Escape still refuses to leave it.
ImportAndExportKeepTheEdit ==
    [][(mode = "EDIT" /\ (ImportNotes \/ ExportNotes)) =>
         /\ mode' = "EDIT"
         /\ editing_note_id' = editing_note_id
         /\ original_body' = original_body
         /\ editor_text' = editor_text
         /\ get(notes', editing_note_id)
         /\ notes'[editing_note_id].title = notes[editing_note_id].title
         /\ notes'[editing_note_id].body = notes[editing_note_id].body
         /\ editor_text # original_body => action_mode_back(Self') = Self']_vars

\* an import in EDIT made and marked a second note and reset the query and
\* the list, beside unsaved text in the editor of the first
ImportedBesideUnsavedText ==
    /\ last.op = "import"
    /\ ~last.raised
    /\ Unsaved
    /\ editing_note_id = 1
    /\ input_value = <<>>
    /\ Len(matches) = 2
    /\ marked = {2}

====
